---- MODULE Spec2Model ----
(***************************************************************************)
(* Signal generation and buffered backtesting of stryker-intelligence.     *)
(*                                                                         *)
(* These state machines share this module:                                 *)
(*   Spec          the buffered backtest loop (backtest_with_buffer)       *)
(*   SpecCancel    the same loop, with a caller asking for cancellation    *)
(*   SpecClassify  SignalGenerator.generateSignal                          *)
(*   SpecEngine    BacktestEngine.backtest called repeatedly on one engine *)
(*   SpecSentiment NLPEngine.computeSentiment on token sequences           *)
(*   SpecAnalyze   NLPEngine.analyze called on the engines of the page     *)
(*   SpecTheme     the theme toggle of the page: button and keyboard       *)
(*   SpecPanel     the NLP analyzer panel: selections, runs and timers     *)
(*   SpecPanelLive the same panel, every pending timer eventually firing   *)
(*                                                                         *)
(* Numbers are exact: money is kept in cents, prices in whole currency     *)
(* units, slippage and positionWeight in percent, scores in hundredths.    *)
(***************************************************************************)
EXTENDS Integers, Sequences, FiniteSets, TLC

VARIABLES
    \* ---- backtest_with_buffer: inputs
    signals,          \* the signal list given to the run, in input order
    bufferDays,       \* config.buffer_days
    endDate,          \* config.end_date
    slippage,         \* config.slippage, percent
    positionWeight,   \* config.position_weight, percent
    prices,           \* the price history: <<ticker, date>> -> price, partial
    \* ---- backtest_with_buffer: the run
    pc,               \* "loop" | "done" | "error"
    queue,            \* sorted(signals, key = timestamp), each with its input index
    i,                \* position of the for loop in queue
    cash,             \* portfolio.cash, cents
    positions,        \* portfolio.positions: ticker -> shares, partial
    trades,           \* the trade log
    cancelRequested,  \* a cancellation was asked for at a signal boundary
    \* ---- SignalGenerator.generateSignal
    generated,        \* the calls made so far: arguments, draws and Signal returned
    \* ---- BacktestEngine.backtest
    engineRuns,       \* the runs made on one engine instance, in call order
    \* ---- NLPEngine
    nlpEngines,       \* the NLPEngine instances: instance -> its fields
    scored,           \* the computeSentiment call made: engine, tokens, result
    analyses,         \* the analyze calls made so far: engine, text, NLPResult
    \* ---- theme toggle
    dataTheme,        \* the data-theme attribute of the document element
    storedTheme,      \* localStorage["stryker-theme"]
    mounted,          \* the effect of Home has run: the keydown listener is on
    activeTag,        \* document.activeElement.tagName
    capsLock,         \* the keyboard's Caps Lock state
    events,           \* the key presses and clicks made so far
    lastEvent,        \* the key press or click handled last
    \* ---- NLPAnalyzerSection
    inView,           \* useInView(ref, {once: true})
    selectedFiling,   \* the id of the selected filing
    nlpResult,        \* the displayed NLPResult, or NoResult
    isAnalyzing,      \* the Run button reads "Analyzing..." and is disabled
    timers            \* the pending 800 ms timers, each with the filing it captured

btVars == <<signals, bufferDays, endDate, slippage, positionWeight, prices,
            pc, queue, i, cash, positions, trades, cancelRequested>>

nlpVars == <<nlpEngines, scored, analyses>>

themeVars == <<dataTheme, storedTheme, mounted, activeTag, capsLock, events,
               lastEvent>>

panelVars == <<inView, selectedFiling, nlpResult, isAnalyzing, timers>>

vars == <<btVars, generated, engineRuns, nlpVars, themeVars, panelVars>>

-----------------------------------------------------------------------------
(* Bounds of the model *)

MaxSignals == 2
MaxTs == 3

Tickers == {"X", "Y"}
Decisions == {"BUY", "HOLD", "SELL"}
BufferChoices == {-1, 0, 1}
SlippageChoices == {0, 10}
WeightChoices == {50, 100}
InitialCapital == 100 * 100

Timestamps == 1 .. MaxTs
\* AddTradingDays moves at most |n| trading days and two weekend days per step
Dates == 0 .. (MaxTs + 4)
EndDateChoices == {MaxTs + 1, MaxTs + 2}
\* day 0 is a Wednesday: days 3 and 4 of every week are Saturday and Sunday
WeekendDays == {3, 4}

SignalRecords == [ticker : Tickers, timestamp : Timestamps, signal : Decisions]

RECURSIVE SeqsUpTo(_, _)
SeqsUpTo(S, n) ==
    IF n = 0 THEN {<<>>}
    ELSE LET shorter == SeqsUpTo(S, n - 1)
         IN  shorter \cup {Append(q, s) : q \in {x \in shorter : Len(x) = n - 1}, s \in S}

-----------------------------------------------------------------------------
(* The trading calendar and the price provider *)

IsWeekend(d) == (d % 7) \in WeekendDays

RECURSIVE NextTradingDay(_)
NextTradingDay(d) == IF IsWeekend(d + 1) THEN NextTradingDay(d + 1) ELSE d + 1

RECURSIVE PrevTradingDay(_)
PrevTradingDay(d) == IF IsWeekend(d - 1) THEN PrevTradingDay(d - 1) ELSE d - 1

RECURSIVE AddTradingDays(_, _)
AddTradingDays(d, n) ==
    IF n = 0 THEN d
    ELSE IF n > 0 THEN AddTradingDays(NextTradingDay(d), n - 1)
    ELSE AddTradingDays(PrevTradingDay(d), n + 1)

\* Price histories the runs are given.  No table has a price on a weekend.
RisingTable ==
    [k \in {<<t, d>> \in Tickers \X Dates : ~IsWeekend(d)} |->
        IF k[1] = "X" THEN 10 + k[2] ELSE 60]

\* a flat price, and a data gap: X has no price on the trading days in GapDays
GapDays == {1}

GapTable ==
    [k \in {<<t, d>> \in Tickers \X Dates :
                ~IsWeekend(d) /\ ~(t = "X" /\ d \in GapDays)} |->
        IF k[1] = "X" THEN 10 ELSE 60]

PriceTables == {RisingTable, GapTable}

HasPrice(t, d) == <<t, d>> \in DOMAIN prices

\* the latest price of t quoted on or before d; 0 when there is none
RECURSIVE MarkPrice(_, _)
MarkPrice(t, d) ==
    IF d < 0 THEN 0
    ELSE IF HasPrice(t, d) THEN prices[<<t, d>>]
    ELSE MarkPrice(t, d - 1)

-----------------------------------------------------------------------------
(* backtest_with_buffer *)

Tagged(sigs) ==
    [k \in 1 .. Len(sigs) |->
        [ticker |-> sigs[k].ticker, timestamp |-> sigs[k].timestamp,
         signal |-> sigs[k].signal, src |-> k]]

\* insert s behind every element whose key is not greater: a stable insertion
InsertByTimestamp(q, s) ==
    LET k == Cardinality({j \in 1 .. Len(q) : q[j].timestamp <= s.timestamp})
    IN  SubSeq(q, 1, k) \o <<s>> \o SubSeq(q, k + 1, Len(q))

SortIdentity(q) == q

\* sorted(signals, key=lambda s: s.timestamp): Python's sort is stable
RECURSIVE SortedByTimestamp(_)
SortedByTimestamp(q) ==
    IF q = <<>> THEN <<>>
    ELSE InsertByTimestamp(SortedByTimestamp(SubSeq(q, 1, Len(q) - 1)), q[Len(q)])

ExecutionDateNoBuffer(s) == s.timestamp

\* execution_date = add_trading_days(signal.timestamp, config.buffer_days)
ExecutionDate(s) == AddTradingDays(s.timestamp, bufferDays)

PastEndNever(d) == FALSE

\* if execution_date > config.end_date: continue
PastEnd(d) == d > endDate

Held(t) == IF t \in DOMAIN positions THEN positions[t] ELSE 0

RECURSIVE SumOver(_, _)
SumOver(S, d) ==
    IF S = {} THEN 0
    ELSE LET t == CHOOSE x \in S : TRUE
         IN  positions[t] * MarkPrice(t, d) * 100 + SumOver(S \ {t}, d)

\* portfolio.equity, marked at the prices known on date d; cents
Equity(d) == cash + SumOver(DOMAIN positions, d)

\* portfolio.cash >= position_size, position_size = equity * weight
CanAfford(d) == cash * 100 >= Equity(d) * positionWeight

SharesRoundedUp(d, price) ==
    (Equity(d) * positionWeight + 100 * 100 * price - 1) \div (100 * 100 * price)

\* shares = floor(position_size / price)
SharesFor(d, price) == (Equity(d) * positionWeight) \div (100 * 100 * price)

CostWithoutSlippage(shares, price) == shares * price * 100

\* cost = shares * price * (1 + config.slippage); cents
Cost(shares, price) == shares * price * (100 + slippage)

ProceedsWithoutSlippage(shares, price) == shares * price * 100

\* proceeds = shares * price * (1 - config.slippage); cents
Proceeds(shares, price) == shares * price * (100 - slippage)

\* portfolio.buy(ticker, shares, cost): debit the cost, credit the position
PortfolioBuy(t, shares, cost) ==
    /\ cash' = cash - cost
    /\ positions' = [x \in DOMAIN positions \cup {t} |->
                         Held(x) + (IF x = t THEN shares ELSE 0)]

\* portfolio.sell(ticker, shares, proceeds): credit the proceeds, drop the position
PortfolioSell(t, shares, proceeds) ==
    /\ cash' = cash + proceeds
    /\ positions' = [x \in DOMAIN positions \ {t} |-> positions[x]]

Current == queue[i]

AtSignal == pc = "loop" /\ i <= Len(queue)

inputVars == <<signals, bufferDays, endDate, slippage, positionWeight, prices, queue>>
ledgerVars == <<cash, positions, trades>>

BacktestInit ==
    /\ signals \in SeqsUpTo(SignalRecords, MaxSignals)
    /\ bufferDays \in BufferChoices
    /\ endDate \in EndDateChoices
    /\ slippage \in SlippageChoices
    /\ positionWeight \in WeightChoices
    /\ prices \in PriceTables
    /\ pc = "loop"
    /\ queue = SortedByTimestamp(Tagged(signals))
    /\ i = 1
    /\ cash = InitialCapital
    /\ positions = << >>
    /\ trades = << >>
    /\ cancelRequested = FALSE

\* the execution date lies after the end of the run: continue
SkipPastEnd ==
    /\ AtSignal
    /\ PastEnd(ExecutionDate(Current))
    /\ i' = i + 1
    /\ UNCHANGED <<inputVars, ledgerVars, pc, cancelRequested>>

\* prices.loc[execution_date, ticker] on a label that is not there: KeyError
PriceMissing ==
    /\ AtSignal
    /\ ~PastEnd(ExecutionDate(Current))
    /\ ~HasPrice(Current.ticker, ExecutionDate(Current))
    /\ pc' = "error"
    /\ UNCHANGED <<inputVars, ledgerVars, i, cancelRequested>>

Priced ==
    /\ AtSignal
    /\ ~PastEnd(ExecutionDate(Current))
    /\ HasPrice(Current.ticker, ExecutionDate(Current))

Buy ==
    /\ Priced
    /\ Current.signal = "BUY"
    /\ CanAfford(ExecutionDate(Current))
    /\ LET d == ExecutionDate(Current)
           t == Current.ticker
           price == prices[<<t, d>>]
           shares == SharesFor(d, price)
       IN  /\ PortfolioBuy(t, shares, Cost(shares, price))
           /\ trades' = Append(trades,
                  [ticker |-> t, side |-> "BUY", shares |-> shares,
                   price |-> price, date |-> d, src |-> Current.src])
    /\ i' = i + 1
    /\ UNCHANGED <<inputVars, pc, cancelRequested>>

Sell ==
    /\ Priced
    /\ ~(Current.signal = "BUY" /\ CanAfford(ExecutionDate(Current)))
    /\ Current.signal = "SELL"
    /\ Current.ticker \in DOMAIN positions
    /\ LET d == ExecutionDate(Current)
           t == Current.ticker
           price == prices[<<t, d>>]
           shares == positions[t]
       IN  /\ PortfolioSell(t, shares, Proceeds(shares, price))
           /\ trades' = Append(trades,
                  [ticker |-> t, side |-> "SELL", shares |-> shares,
                   price |-> price, date |-> d, src |-> Current.src])
    /\ i' = i + 1
    /\ UNCHANGED <<inputVars, pc, cancelRequested>>

\* neither branch of the if/elif is taken
NoTrade ==
    /\ Priced
    /\ ~(Current.signal = "BUY" /\ CanAfford(ExecutionDate(Current)))
    /\ ~(Current.signal = "SELL" /\ Current.ticker \in DOMAIN positions)
    /\ i' = i + 1
    /\ UNCHANGED <<inputVars, ledgerVars, pc, cancelRequested>>

\* the loop is over: the metrics are computed and the result returned
Finish ==
    /\ pc = "loop"
    /\ i > Len(queue)
    /\ pc' = "done"
    /\ UNCHANGED <<inputVars, ledgerVars, i, cancelRequested>>

\* the BUY trades that opened the position the SELL trade log[k] closes: those
\* of its ticker since the previous SELL of that ticker
OpeningBuys(log, k) ==
    {j \in 1 .. (k - 1) :
        /\ log[j].side = "BUY"
        /\ log[j].ticker = log[k].ticker
        /\ \A h \in (j + 1) .. (k - 1) :
               ~(log[h].side = "SELL" /\ log[h].ticker = log[k].ticker)}

\* a round trip: a SELL trade that closes a position opened by BUY trades
ClosedRoundTrips(log) ==
    {k \in 1 .. Len(log) : log[k].side = "SELL" /\ OpeningBuys(log, k) /= {}}

RECURSIVE CostOf(_, _)
CostOf(log, S) ==
    IF S = {} THEN 0
    ELSE LET j == CHOOSE x \in S : TRUE
         IN  Cost(log[j].shares, log[j].price) + CostOf(log, S \ {j})

\* proceeds of the SELL less the cost of the BUYs it closes; cents
RealizedPnL(log, k) ==
    Proceeds(log[k].shares, log[k].price) - CostOf(log, OpeningBuys(log, k))

\* countWins(trades): the round trips closed with a gain
countWins(log) ==
    Cardinality({k \in ClosedRoundTrips(log) : RealizedPnL(log, k) > 0})

\* winRate: countWins(trades) / len(trades), kept as the two terms of the ratio
winRate(log) == [wins |-> countWins(log), outOf |-> Len(log)]

\* the caller asks for the run to be cancelled, between two signals
RequestCancel ==
    /\ AtSignal
    /\ ~cancelRequested
    /\ cancelRequested' = TRUE
    /\ UNCHANGED <<inputVars, ledgerVars, pc, i>>

BacktestIdle ==
    /\ signals = << >>
    /\ bufferDays = 0
    /\ endDate = 0
    /\ slippage = 0
    /\ positionWeight = 0
    /\ prices = << >>
    /\ pc = "done"
    /\ queue = << >>
    /\ i = 1
    /\ cash = InitialCapital
    /\ positions = << >>
    /\ trades = << >>
    /\ cancelRequested = FALSE

-----------------------------------------------------------------------------
(* SignalGenerator.generateSignal *)

WeightSentiment == 35
WeightFundamental == 35
WeightTechnical == 30
BuyThreshold == 650000
HoldThreshold == 400000

MaxCalls == 2

\* tickers of the built-in score tables, and one that is in neither
KnownTickers == {"GOOGL", "NVDA", "TSLA", "JNJ"}
ClassifyTickers == KnownTickers \cup {"ZZZ"}
\* sentiment.positive and sentiment.negative, in hundredths of a percent
PositiveChoices == {0, 400, 3333, 10000}
NegativeChoices == {0, 3333, 6900}
\* Math.random(), in tenths
RandomChoices == {0, 9}

\* Math.round(a / b) for b > 0: the nearest integer, halves upwards
TruncDiv(a, b) == a \div b

RoundDiv(a, b) == (2 * a + b) \div (2 * b)

Abs(x) == IF x < 0 THEN -x ELSE x

\* fundamentals[ticker] ?? 0.5 + Math.random() * 0.4; hundredths
computeFundamentalScore(ticker, r) ==
    CASE ticker = "AAPL" -> 82
      [] ticker = "MSFT" -> 78
      [] ticker = "GOOGL" -> 75
      [] ticker = "NVDA" -> 88
      [] ticker = "AMZN" -> 65
      [] ticker = "META" -> 58
      [] ticker = "TSLA" -> 45
      [] ticker = "JPM" -> 72
      [] ticker = "V" -> 80
      [] ticker = "JNJ" -> 70
      [] OTHER -> 50 + 4 * r

\* technicals[ticker] ?? 0.4 + Math.random() * 0.5; hundredths
computeTechnicalScore(ticker, r) ==
    CASE ticker = "AAPL" -> 75
      [] ticker = "MSFT" -> 82
      [] ticker = "GOOGL" -> 68
      [] ticker = "NVDA" -> 91
      [] ticker = "AMZN" -> 55
      [] ticker = "META" -> 48
      [] ticker = "TSLA" -> 35
      [] ticker = "JPM" -> 65
      [] ticker = "V" -> 78
      [] ticker = "JNJ" -> 72
      [] OTHER -> 40 + 5 * r

\* (positive - negative + 50) / 100; ten-thousandths
SentimentScore(positive, negative) == positive - negative + 5000

\* the weighted sum of the three scores; millionths
CompositeScore(s, f, t) ==
    WeightSentiment * s + WeightFundamental * f * 100 + WeightTechnical * t * 100

DecideStrictly(composite) ==
    IF composite > BuyThreshold THEN "BUY"
    ELSE IF composite > HoldThreshold THEN "HOLD"
    ELSE "SELL"

\* if (compositeScore >= 0.65) BUY else if (compositeScore >= 0.40) HOLD else SELL
Decide(composite) ==
    IF composite >= BuyThreshold THEN "BUY"
    ELSE IF composite >= HoldThreshold THEN "HOLD"
    ELSE "SELL"

Reasoning(decision, f, t) ==
    CASE decision = "BUY" ->
           <<"positive sentiment">>
             \o (IF f > 70 THEN <<"solid fundamentals">> ELSE << >>)
             \o (IF t > 70 THEN <<"favorable technicals">> ELSE << >>)
      [] decision = "HOLD" -> <<"mixed signals", "await catalyst">>
      [] OTHER ->
           <<"negative sentiment">>
             \o (IF f < 40 THEN <<"deteriorating fundamentals">> ELSE << >>)
             \o (IF t < 40 THEN <<"weak technicals">> ELSE << >>)

generateSignal(ticker, positive, negative, rf, rt) ==
    LET s == SentimentScore(positive, negative)
        f == computeFundamentalScore(ticker, rf)
        t == computeTechnicalScore(ticker, rt)
        composite == CompositeScore(s, f, t)
    IN  [ticker |-> ticker,
         signal |-> Decide(composite),
         confidence |-> RoundDiv(Abs(composite - 500000) * 200, 1000000),
         components |-> [sentiment |-> RoundDiv(s, 100),
                         fundamental |-> f,
                         technical |-> t],
         reasoning |-> Reasoning(Decide(composite), f, t),
         composite |-> composite]

ClassifyInit == generated = << >>

GenerateSignal ==
    /\ Len(generated) < MaxCalls
    /\ \E ticker \in ClassifyTickers, positive \in PositiveChoices,
          negative \in NegativeChoices, rf \in RandomChoices, rt \in RandomChoices :
          generated' = Append(generated,
              [ticker |-> ticker, positive |-> positive, negative |-> negative,
               out |-> generateSignal(ticker, positive, negative, rf, rt)])

-----------------------------------------------------------------------------
(* BacktestEngine.backtest *)

MaxEngineSignals == 2

\* the Signals a run is given: only signal and confidence are read
EngineSignalChoices ==
    { [signal |-> "BUY", confidence |-> 100], [signal |-> "BUY", confidence |-> 30],
      [signal |-> "HOLD", confidence |-> 0], [signal |-> "SELL", confidence |-> 45] }
EngineConfigChoices ==
    { [bufferDays |-> 5, initialCapital |-> 1000000],
      [bufferDays |-> 0, initialCapital |-> 1000] }
\* Math.random(), in tenths
DrawChoices == {0, 7}

RECURSIVE SumConfidence(_)
SumConfidence(sigs) ==
    IF sigs = << >> THEN 0
    ELSE sigs[1].confidence + SumConfidence(Tail(sigs))

BuyCount(sigs) == Cardinality({k \in 1 .. Len(sigs) : sigs[k].signal = "BUY"})

\* signals.length || 1
LengthOrOne(sigs) == IF Len(sigs) = 0 THEN 1 ELSE Len(sigs)

\* Math.round((-8 - Math.random() * 10) * 100) / 100; hundredths
maxDrawdown(draw) == -800 - 100 * draw

\* the BacktestResult: sharpeRatio and maxDrawdown in hundredths, winRate,
\* alpha and returns in tenths
backtest(sigs, config, draw) ==
    LET n == LengthOrOne(sigs)
        total == SumConfidence(sigs)
        buys == BuyCount(sigs)
    IN  [sharpeRatio |-> RoundDiv(100 * (150 * n + total), 180 * n - 50 * buys),
         maxDrawdown |-> maxDrawdown(draw),
         winRate |-> RoundDiv(550 * n + 2 * total, n),
         alpha |-> RoundDiv(70 * n + total, n),
         trades |-> (5 * Len(sigs)) \div 2,
         returns |-> RoundDiv(150 * n + total, n)]

EngineInit == engineRuns = << >>

RunOf(sigs, config, draw) ==
    [signals |-> sigs, config |-> config, result |-> backtest(sigs, config, draw)]

\* the first call on the engine instance
RunBacktest ==
    /\ engineRuns = << >>
    /\ \E sigs \in SeqsUpTo(EngineSignalChoices, MaxEngineSignals),
          config \in EngineConfigChoices, draw \in DrawChoices :
          engineRuns' = <<RunOf(sigs, config, draw)>>

\* a second call on the same instance
RunBacktestAgain ==
    /\ Len(engineRuns) = 1
    /\ \E sigs \in SeqsUpTo(EngineSignalChoices, MaxEngineSignals),
          config \in EngineConfigChoices, draw \in DrawChoices :
          engineRuns' = Append(engineRuns, RunOf(sigs, config, draw))

-----------------------------------------------------------------------------
(* NLPEngine: text is a sequence of characters, a token a sequence of       *)
(* characters; strings are built from them where the code compares strings *)

Lower == <<"a", "b", "c", "d", "e", "f", "g", "h", "i", "j", "k", "l", "m",
           "n", "o", "p", "q", "r", "s", "t", "u", "v", "w", "x", "y", "z">>
Upper == <<"A", "B", "C", "D", "E", "F", "G", "H", "I", "J", "K", "L", "M",
           "N", "O", "P", "Q", "R", "S", "T", "U", "V", "W", "X", "Y", "Z">>
Digit == <<"0", "1", "2", "3", "4", "5", "6", "7", "8", "9">>

Occurs(seq, c) == \E k \in 1 .. Len(seq) : seq[k] = c
IndexIn(seq, c) == CHOOSE k \in 1 .. Len(seq) : seq[k] = c

IsDigit(c) == Occurs(Digit, c)
\* \w
IsWordChar(c) == Occurs(Lower, c) \/ Occurs(Upper, c) \/ IsDigit(c) \/ c = "_"
\* \s
IsSpace(c) == c \in {" ", "\t", "\n"}

LowerChar(c) == IF Occurs(Upper, c) THEN Lower[IndexIn(Upper, c)] ELSE c

\* String.prototype.toLowerCase
toLowerCase(cs) == [k \in 1 .. Len(cs) |-> LowerChar(cs[k])]

\* the string made of the characters of cs
RECURSIVE Join(_)
Join(cs) == IF Len(cs) = 0 THEN "" ELSE cs[1] \o Join(Tail(cs))

\* .replace(/[^\w\s]/g, " ")
ReplaceNonWord(cs) ==
    [k \in 1 .. Len(cs) |-> IF IsWordChar(cs[k]) \/ IsSpace(cs[k]) THEN cs[k] ELSE " "]

\* the first position >= p of cs that holds no whitespace; Len(cs) + 1 if none
RECURSIVE SkipSpace(_, _)
SkipSpace(cs, p) ==
    IF p <= Len(cs) /\ IsSpace(cs[p]) THEN SkipSpace(cs, p + 1) ELSE p

\* .split(/\s+/): the pieces between the runs of whitespace, empty ones included
RECURSIVE SplitOnSpace(_)
SplitOnSpace(cs) ==
    IF \A k \in 1 .. Len(cs) : ~IsSpace(cs[k]) THEN <<cs>>
    ELSE LET k == CHOOSE j \in 1 .. Len(cs) :
                      IsSpace(cs[j]) /\ \A h \in 1 .. (j - 1) : ~IsSpace(cs[h])
         IN  <<SubSeq(cs, 1, k - 1)>>
                 \o SplitOnSpace(SubSeq(cs, SkipSpace(cs, k), Len(cs)))

KeepAnyToken(token) == TRUE

\* .filter((token) => token.length > 2)
KeepToken(token) == Len(token) > 2

tokenize(text) ==
    SelectSeq(SplitOnSpace(ReplaceNonWord(toLowerCase(text))), KeepToken)

Suffixes ==
    << <<"i", "n", "g">>, <<"e", "d">>, <<"l", "y">>, <<"n", "e", "s", "s">>,
       <<"m", "e", "n", "t">>, <<"t", "i", "o", "n">>, <<"s", "i", "o", "n">>,
       <<"i", "t", "y">> >>

EndsWith(word, suffix) ==
    /\ Len(word) >= Len(suffix)
    /\ SubSeq(word, Len(word) - Len(suffix) + 1, Len(word)) = suffix

\* the loop of stemWord from the k-th suffix on
RECURSIVE StemFrom(_, _)
StemFrom(word, k) ==
    IF k > Len(Suffixes) THEN word
    ELSE IF EndsWith(word, Suffixes[k]) /\ Len(word) > Len(Suffixes[k]) + 3
         THEN SubSeq(word, 1, Len(word) - Len(Suffixes[k]))
         ELSE StemFrom(word, k + 1)

stemWord(word) == StemFrom(word, 1)

\* the fields of a new NLPEngine
NewNLPEngine ==
    [positiveWords |->
        {"achieve", "accomplishment", "advantage", "benefit", "breakthrough",
         "confident", "deliver", "enhance", "exceed", "excellent", "favorable",
         "gain", "growth", "improve", "innovation", "opportunity", "outperform",
         "positive", "profit", "progress", "recovery", "strength", "success",
         "superior", "upside", "value"},
     negativeWords |->
        {"adverse", "challenge", "concern", "decline", "default", "deficit",
         "delay", "deteriorate", "difficult", "disappoint", "downgrade",
         "failure", "impair", "inability", "lawsuit", "liability", "litigation",
         "loss", "negative", "problem", "restructure", "risk", "shortfall",
         "threat", "uncertain", "weak"},
     uncertaintyWords |->
        {"anticipate", "approximate", "assume", "believe", "could", "depend",
         "estimate", "expect", "forecast", "hope", "intend", "likely", "may",
         "might", "outlook", "plan", "possible", "potential", "predict",
         "probable", "project", "should"}]

\* the instances the page constructs: one per section that analyses filings
EngineInstances == {"analyzer", "signals"}

Min(a, b) == IF a < b THEN a ELSE b
MaxWithoutFloor(a, b) == b

Max(a, b) == IF a > b THEN a ELSE b

HitsCountingStemToo(words, tokens) ==
    Cardinality({k \in 1 .. Len(tokens) : Join(tokens[k]) \in words})
      + Cardinality({k \in 1 .. Len(tokens) : Join(stemWord(tokens[k])) \in words})

\* the tokens that are in the word set, themselves or stemmed: each counts once
Hits(words, tokens) ==
    Cardinality({k \in 1 .. Len(tokens) :
                    Join(tokens[k]) \in words \/ Join(stemWord(tokens[k])) \in words})

TokensAcrossCalls(tokens) ==
    IF Len(tokens) + Len(analyses) = 0 THEN 1 ELSE Len(tokens) + Len(analyses)

\* tokens.length || 1
TokensOrOne(tokens) == IF Len(tokens) = 0 THEN 1 ELSE Len(tokens)

\* positive, negative and neutral in hundredths of a percent, confidence in percent
computeSentiment(engine, tokens) ==
    LET total == TokensOrOne(tokens)
        positive == Hits(engine.positiveWords, tokens)
        negative == Hits(engine.negativeWords, tokens)
        uncertainty == Hits(engine.uncertaintyWords, tokens)
    IN  [positive |-> RoundDiv(positive * 10000, total),
         negative |-> RoundDiv(negative * 10000, total),
         neutral |-> RoundDiv((total - positive - negative) * 10000, total),
         confidence |->
             Min(100, Max(0, RoundDiv(Abs(positive - negative) * 100
                                        + (100 - uncertainty * 10) * total, total)))]

MaxTokens == 3
MaxRepeats == 12

\* tokens the scorer is given: in the positive list ("gain", "growth"),
\* positive once stemmed ("exceeded"), in the negative list ("risk"), negative
\* once stemmed ("weakness"), in the uncertainty list ("may", "likely"), in
\* none ("report")
Vocabulary ==
    { <<"g", "a", "i", "n">>,
      <<"g", "r", "o", "w", "t", "h">>,
      <<"e", "x", "c", "e", "e", "d", "e", "d">>,
      <<"r", "i", "s", "k">>,
      <<"w", "e", "a", "k", "n", "e", "s", "s">>,
      <<"m", "a", "y">>,
      <<"l", "i", "k", "e", "l", "y">>,
      <<"r", "e", "p", "o", "r", "t">> }

NlpInit ==
    /\ nlpEngines = [e \in EngineInstances |-> NewNLPEngine]
    /\ scored = << >>
    /\ analyses = << >>

\* no NLPEngine is constructed
NlpIdle ==
    /\ nlpEngines = << >>
    /\ scored = << >>
    /\ analyses = << >>

RECURSIVE Repeated(_, _)
Repeated(w, n) == IF n = 0 THEN << >> ELSE <<w>> \o Repeated(w, n - 1)

\* every short token sequence, and long ones: one token many times over,
\* followed by at most one other token
TokenChoices ==
    SeqsUpTo(Vocabulary, MaxTokens)
      \cup { Repeated(w, n) \o tail : w \in Vocabulary,
                                       n \in (MaxTokens + 1) .. MaxRepeats,
                                       tail \in SeqsUpTo(Vocabulary, 1) }

ComputeSentiment ==
    /\ scored = << >>
    /\ \E e \in DOMAIN nlpEngines, tokens \in TokenChoices :
          scored' = <<[engine |-> e, tokens |-> tokens,
                       sentiment |-> computeSentiment(nlpEngines[e], tokens)]>>
    /\ UNCHANGED <<nlpEngines, analyses>>

-----------------------------------------------------------------------------
(* NLPEngine.analyze *)

\* the character at position p of cs; "" past the end
At(cs, p) == IF p >= 1 /\ p <= Len(cs) THEN cs[p] ELSE ""

\* cs holds word at position p, whatever the case (word is in lower case)
StartsWithNoCase(cs, p, word) ==
    /\ p + Len(word) - 1 <= Len(cs)
    /\ \A k \in 1 .. Len(word) : LowerChar(cs[p + k - 1]) = word[k]

\* \d+ from p on: the first position >= p that holds no digit
RECURSIVE DigitsTo(_, _)
DigitsTo(cs, p) == IF IsDigit(At(cs, p)) THEN DigitsTo(cs, p + 1) ELSE p

\* [\d,]+ from p on
RECURSIVE AmountTo(_, _)
AmountTo(cs, p) ==
    IF IsDigit(At(cs, p)) \/ At(cs, p) = "," THEN AmountTo(cs, p + 1) ELSE p

\* (?:\.\d+)? at p: the position behind it
DecimalsTo(cs, p) ==
    IF At(cs, p) = "." /\ DigitsTo(cs, p + 1) > p + 1 THEN DigitsTo(cs, p + 1) ELSE p

\* the first word of words that cs holds at p: the position behind it, 0 if none
WordTo(cs, p, words) ==
    LET found == {k \in 1 .. Len(words) : StartsWithNoCase(cs, p, words[k])}
    IN  IF found = {} THEN 0
        ELSE p + Len(words[CHOOSE k \in found : \A j \in found : k <= j])

MoneyUnits ==
    << <<"m", "i", "l", "l", "i", "o", "n">>, <<"b", "i", "l", "l", "i", "o", "n">>,
       <<"m">>, <<"b">> >>

Roles ==
    << <<"c", "e", "o">>, <<"c", "f", "o">>, <<"c", "t", "o">>, <<"c", "o", "o">>,
       <<"p", "r", "e", "s", "i", "d", "e", "n", "t">>,
       <<"c", "h", "a", "i", "r", "m", "a", "n">>,
       <<"d", "i", "r", "e", "c", "t", "o", "r">> >>

\* Each Match operator gives the position behind the match of its pattern
\* that starts at s, or 0 when the pattern does not match there.

\* /\$[\d,]+(?:\.\d+)?(?:\s*(?:million|billion|M|B))?/gi
MatchMoney(cs, s) ==
    IF At(cs, s) /= "$" \/ AmountTo(cs, s + 1) = s + 1 THEN 0
    ELSE LET number == DecimalsTo(cs, AmountTo(cs, s + 1))
             unit == WordTo(cs, SkipSpace(cs, number), MoneyUnits)
         IN  IF unit > 0 THEN unit ELSE number

\* /(?:Q[1-4]|FY)\s*\d{4}/gi
MatchFiscal(cs, s) ==
    LET head == \/ LowerChar(At(cs, s)) = "q" /\ At(cs, s + 1) \in {"1", "2", "3", "4"}
                \/ LowerChar(At(cs, s)) = "f" /\ LowerChar(At(cs, s + 1)) = "y"
        year == SkipSpace(cs, s + 2)
    IN  IF head /\ DigitsTo(cs, year) >= year + 4 THEN year + 4 ELSE 0

IsDateSeparator(c) == c \in {"/", "-"}

\* \d{1,2} at p with a separator behind it: the number of digits, 0 if none
DatePart(cs, p) ==
    IF IsDigit(At(cs, p)) /\ IsDigit(At(cs, p + 1)) /\ IsDateSeparator(At(cs, p + 2))
    THEN 2
    ELSE IF IsDigit(At(cs, p)) /\ IsDateSeparator(At(cs, p + 1)) THEN 1 ELSE 0

\* /\d{1,2}(?:\/|-)(?:\d{1,2})(?:\/|-)(?:\d{2,4})/g
MatchDate(cs, s) ==
    LET first == DatePart(cs, s)
        second == DatePart(cs, s + first + 1)
        year == s + first + 1 + second + 1
        digits == DigitsTo(cs, year) - year
    IN  IF first > 0 /\ second > 0 /\ digits >= 2 THEN year + Min(digits, 4) ELSE 0

\* /(?:\d+(?:\.\d+)?)\s*%/g
MatchPercentage(cs, s) ==
    LET sign == SkipSpace(cs, DecimalsTo(cs, DigitsTo(cs, s)))
    IN  IF DigitsTo(cs, s) > s /\ At(cs, sign) = "%" THEN sign + 1 ELSE 0

\* /(?:CEO|CFO|CTO|COO|President|Chairman|Director)/gi
MatchRole(cs, s) == WordTo(cs, s, Roles)

Patterns == <<"MONEY", "FISCAL_PERIOD", "DATE", "PERCENTAGE", "ROLE">>

MatchAt(type, cs, s) ==
    CASE type = "MONEY" -> MatchMoney(cs, s)
      [] type = "FISCAL_PERIOD" -> MatchFiscal(cs, s)
      [] type = "DATE" -> MatchDate(cs, s)
      [] type = "PERCENTAGE" -> MatchPercentage(cs, s)
      [] type = "ROLE" -> MatchRole(cs, s)

\* text.match(regex) || []: the matches from p on, leftmost first, not overlapping
RECURSIVE MatchesFrom(_, _, _)
MatchesFrom(type, cs, p) ==
    IF p > Len(cs) THEN << >>
    ELSE LET e == MatchAt(type, cs, p)
         IN  IF e > 0 THEN <<SubSeq(cs, p, e - 1)>> \o MatchesFrom(type, cs, e)
             ELSE MatchesFrom(type, cs, p + 1)

\* String.prototype.trim
RECURSIVE Trim(_)
Trim(cs) ==
    IF Len(cs) = 0 THEN cs
    ELSE IF IsSpace(cs[1]) THEN Trim(Tail(cs))
    ELSE IF IsSpace(cs[Len(cs)]) THEN Trim(SubSeq(cs, 1, Len(cs) - 1))
    ELSE cs

\* a Map from name to {type, count}, in insertion order: count name once more
Counted(entries, name, type) ==
    IF \E k \in 1 .. Len(entries) : entries[k].name = name
    THEN [k \in 1 .. Len(entries) |->
             IF entries[k].name = name
             THEN [entries[k] EXCEPT !.count = @ + 1] ELSE entries[k]]
    ELSE Append(entries, [name |-> name, type |-> type, count |-> 1])

\* matches.forEach over the matches of one pattern
RECURSIVE CountMatches(_, _, _)
CountMatches(entries, matches, type) ==
    IF matches = << >> THEN entries
    ELSE CountMatches(Counted(entries, Join(Trim(matches[1])), type),
                      Tail(matches), type)

\* patterns.forEach from the k-th pattern on
RECURSIVE CountPatterns(_, _, _)
CountPatterns(entries, text, k) ==
    IF k > Len(Patterns) THEN entries
    ELSE CountPatterns(
             CountMatches(entries, MatchesFrom(Patterns[k], text, 1), Patterns[k]),
             text, k + 1)

\* insert e behind every entry whose count is not smaller
InsertByCount(sorted, e) ==
    LET k == Cardinality({j \in 1 .. Len(sorted) : sorted[j].count >= e.count})
    IN  SubSeq(sorted, 1, k) \o <<e>> \o SubSeq(sorted, k + 1, Len(sorted))

\* .sort((a, b) => b.count - a.count): descending counts, ties in their order
RECURSIVE SortByCount(_)
SortByCount(entries) ==
    IF entries = << >> THEN << >>
    ELSE InsertByCount(SortByCount(SubSeq(entries, 1, Len(entries) - 1)),
                       entries[Len(entries)])

WholeList(seq, n) == seq

\* .slice(0, n)
Slice(seq, n) == SubSeq(seq, 1, Min(n, Len(seq)))

extractEntities(text) == Slice(SortByCount(CountPatterns(<< >>, text, 1)), 10)

\* the bigrams of tokens from the k-th token on, counted in a Map
RECURSIVE CountBigrams(_, _, _)
CountBigrams(entries, tokens, k) ==
    IF k >= Len(tokens) THEN entries
    ELSE CountBigrams(
             Counted(entries, Join(tokens[k]) \o " " \o Join(tokens[k + 1]), "BIGRAM"),
             tokens, k + 1)

\* .filter(([phrase, count]) => count > 1 && phrase.length > 6)
IsKeyPhrase(entry) == entry.count > 1 /\ Len(entry.name) > 6

extractKeyPhrases(tokens) ==
    LET top == Slice(SortByCount(SelectSeq(CountBigrams(<< >>, tokens, 1), IsKeyPhrase)), 8)
    IN  [k \in 1 .. Len(top) |-> top[k].name]

\* str.charCodeAt(i), for the characters a token is made of
CharCode(c) ==
    IF Occurs(Lower, c) THEN 96 + IndexIn(Lower, c)
    ELSE IF IsDigit(c) THEN 47 + IndexIn(Digit, c)
    ELSE 95

\* hash = (hash << 5) - hash + code; hash |= 0: 31 * hash + code in 32 bits,
\* kept as two halves of 16 bits
HashStep(hash, code) ==
    LET low == hash.lo * 31 + code
    IN  [hi |-> (hash.hi * 31 + low \div 65536) % 65536, lo |-> low % 65536]

RECURSIVE HashFrom(_, _, _)
HashFrom(hash, str, k) ==
    IF k > Len(str) THEN hash
    ELSE HashFrom(HashStep(hash, CharCode(str[k])), str, k + 1)

\* the 32-bit hash as a signed integer
hashCode(str) ==
    LET hash == HashFrom([hi |-> 0, lo |-> 0], str, 1)
    IN  IF hash.hi >= 32768 THEN (hash.hi - 65536) * 65536 + hash.lo
        ELSE hash.hi * 65536 + hash.lo

\* The embedding is the normalised sum over the tokens of
\* sin(hash * (i + 1) * 0.1) / (tokens.length || 1): a function of the hashes
\* of the tokens, in their order, and of the divisor, which are what is kept
\* here (no token: the zero vector).
generateEmbedding(tokens) ==
    [terms |-> [k \in 1 .. Len(tokens) |-> hashCode(tokens[k])],
     divisor |-> TokensOrOne(tokens)]

analyze(engine, text) ==
    LET tokens == tokenize(text)
        first == Slice(tokens, 50)
    IN  [tokens |-> [k \in 1 .. Len(first) |-> Join(first[k])],
         embeddings |-> generateEmbedding(tokens),
         sentiment |-> computeSentiment(engine, tokens),
         entities |-> extractEntities(text),
         keyPhrases |-> extractKeyPhrases(tokens)]

MaxAnalyses == 3

\* ""
EmptyText ==
    << >>

\* "Strong growth, strong growth: CEO sees 12% gain."
GrowthText ==
    <<"S", "t", "r", "o", "n", "g", " ", "g", "r", "o", "w", "t", "h", ",",
      " ", "s", "t", "r", "o", "n", "g", " ", "g", "r", "o", "w", "t",
      "h", ":", " ", "C", "E", "O", " ", "s", "e", "e", "s", " ", "1",
      "2", "%", " ", "g", "a", "i", "n", ".">>

\* "Risk: CFO, CFO 0% 1% 2% 3% 4% 5% 6% 7% 8% Q3 2024"
RiskText ==
    <<"R", "i", "s", "k", ":", " ", "C", "F", "O", ",", " ", "C", "F", "O",
           " ", "0", "%", " ", "1", "%", " ", "2", "%", " ", "3", "%", " ",
           "4", "%", " ", "5", "%", " ", "6", "%", " ", "7", "%", " ", "8",
           "%", " ", "Q", "3", " ", "2", "0", "2", "4">>

\* "$5 million by 1/15/2025"
MoneyText ==
    <<"$", "5", " ", "m", "i", "l", "l", "i", "o", "n", " ", "b", "y", " ",
      "1", "/", "1", "5", "/", "2", "0", "2", "5">>

\* "Weakness may persist; weakness may grow"
WeaknessText ==
    <<"W", "e", "a", "k", "n", "e", "s", "s", " ", "m", "a", "y", " ", "p",
      "e", "r", "s", "i", "s", "t", ";", " ", "w", "e", "a", "k", "n",
      "e", "s", "s", " ", "m", "a", "y", " ", "g", "r", "o", "w">>

TextChoices == {EmptyText, GrowthText, RiskText, MoneyText, WeaknessText}

\* nlpEngine.current.analyze(text) on one of the engines
Analyze ==
    /\ Len(analyses) < MaxAnalyses
    /\ \E e \in DOMAIN nlpEngines, text \in TextChoices :
          analyses' = Append(analyses,
              [engine |-> e, text |-> text, out |-> analyze(nlpEngines[e], text)])
    /\ UNCHANGED <<nlpEngines, scored>>

-----------------------------------------------------------------------------
(* The theme toggle: toggleTheme, the toggle button and the keydown        *)
(* listener that the effect of Home registers                              *)

MaxEvents == 3

\* getAttribute and getItem return null for what was never set
Absent == "absent"

StoredChoices == {Absent, "dark", "light"}
Tags == {"BODY", "BUTTON", "INPUT", "TEXTAREA"}
PhysicalKeys == {"KeyT", "KeyX"}

\* KeyboardEvent.key of a letter key: upper case when exactly one of Shift
\* and Caps Lock is in effect
KeyOf(code, shift, caps) ==
    LET upper == (shift /\ ~caps) \/ (~shift /\ caps)
    IN  CASE code = "KeyT" -> IF upper THEN "T" ELSE "t"
          [] code = "KeyX" -> IF upper THEN "X" ELSE "x"

\* a value or "dark": x || "dark"
OrDark(x) == IF x = Absent THEN "dark" ELSE x

\* the theme toggleTheme applies and stores, given the attribute it reads
toggleTheme(attribute) == IF OrDark(attribute) = "dark" THEN "light" ELSE "dark"

\* if (e.key === "t" && !e.ctrlKey && !e.metaKey) and the focus is in no input
HandlerToggles(e, tag) ==
    /\ e.key = "t"
    /\ ~e.ctrlKey
    /\ ~e.metaKey
    /\ tag \notin {"INPUT", "TEXTAREA"}

NoEvent == [kind |-> "none"]

ThemeInit ==
    /\ dataTheme = Absent
    /\ storedTheme \in StoredChoices
    /\ mounted = FALSE
    /\ activeTag = "BODY"
    /\ capsLock \in BOOLEAN
    /\ events = 0
    /\ lastEvent = NoEvent

\* the page is not open
ThemeIdle ==
    /\ dataTheme = Absent
    /\ storedTheme = Absent
    /\ mounted = FALSE
    /\ activeTag = "BODY"
    /\ capsLock = FALSE
    /\ events = 0
    /\ lastEvent = NoEvent

\* the effect of Home: load the saved theme and listen to keydown
Mount ==
    /\ ~mounted
    /\ mounted' = TRUE
    /\ dataTheme' = OrDark(storedTheme)
    /\ UNCHANGED <<storedTheme, activeTag, capsLock, events, lastEvent>>

\* a click on the toggle button, which takes the focus
ClickToggle ==
    /\ mounted
    /\ events < MaxEvents
    /\ dataTheme' = toggleTheme(dataTheme)
    /\ storedTheme' = toggleTheme(dataTheme)
    /\ activeTag' = "BUTTON"
    /\ events' = events + 1
    /\ lastEvent' = [kind |-> "click"]
    /\ UNCHANGED <<mounted, capsLock>>

\* a key goes down: handleKeydown
KeyDown ==
    /\ mounted
    /\ events < MaxEvents
    /\ \E code \in PhysicalKeys, shift \in BOOLEAN, ctrl \in BOOLEAN, meta \in BOOLEAN :
          LET e == [kind |-> "keydown", code |-> code, shiftKey |-> shift,
                    ctrlKey |-> ctrl, metaKey |-> meta,
                    key |-> KeyOf(code, shift, capsLock), target |-> activeTag]
          IN  /\ lastEvent' = e
              /\ IF HandlerToggles(e, activeTag)
                 THEN /\ dataTheme' = toggleTheme(dataTheme)
                      /\ storedTheme' = toggleTheme(dataTheme)
                 ELSE UNCHANGED <<dataTheme, storedTheme>>
    /\ events' = events + 1
    /\ UNCHANGED <<mounted, activeTag, capsLock>>

\* the focus moves to another element
MoveFocus ==
    /\ mounted
    /\ \E tag \in Tags \ {activeTag} : activeTag' = tag
    /\ UNCHANGED <<dataTheme, storedTheme, mounted, capsLock, events, lastEvent>>

\* the Caps Lock key: the listener sees a key that is not "t"
PressCapsLock ==
    /\ capsLock' = ~capsLock
    /\ UNCHANGED <<dataTheme, storedTheme, mounted, activeTag, events, lastEvent>>

-----------------------------------------------------------------------------
(* NLPAnalyzerSection: the selected filing, the displayed result and the   *)
(* timers of runAnalysis. A click handler runs together with the render    *)
(* and the effect that follow it; the filing and Run buttons lie inside    *)
(* the observed section, so they are clicked once it is in view.           *)

MaxTimers == 3

\* the ids of sampleFilings, in order
sampleFilings ==
    <<"10K-AAPL-2025", "10Q-MSFT-2025", "8K-NVDA-2025", "10K-AMZN-2025",
      "10Q-TSLA-2025">>

Filings == {sampleFilings[k] : k \in 1 .. Len(sampleFilings)}

NoResult == [analysisOf |-> "null"]

\* nlpEngine.current.analyze(filing.text): the sample texts differ, and so
\* do their analyses
AnalysisOf(filing) == [analysisOf |-> filing]

TimerNeverSet(pending, filing) == pending

\* setTimeout(callback, 800): the callback keeps the filing of its render;
\* timers of equal delay fire in the order they were set
setTimeout(pending, filing) == Append(pending, filing)

PanelInit ==
    /\ inView = FALSE
    /\ selectedFiling = sampleFilings[1]
    /\ nlpResult = NoResult
    /\ isAnalyzing = FALSE
    /\ timers = << >>

PanelIdle == PanelInit

\* the section scrolls into view; the effect finds no result and runs the
\* analysis of the selected filing
EnterView ==
    /\ ~inView
    /\ inView' = TRUE
    /\ IF nlpResult = NoResult
       THEN /\ isAnalyzing' = TRUE
            /\ timers' = setTimeout(timers, selectedFiling)
       ELSE UNCHANGED <<isAnalyzing, timers>>
    /\ UNCHANGED <<selectedFiling, nlpResult>>

\* a click on a filing tab: setSelectedFiling(filing); setNlpResult(null);
\* the effect runs again when runAnalysis or nlpResult changed
SelectFiling ==
    /\ inView
    /\ \E filing \in Filings :
          /\ selectedFiling' = filing
          /\ nlpResult' = NoResult
          /\ IF filing /= selectedFiling \/ nlpResult /= NoResult
             THEN /\ Len(timers) < MaxTimers
                  /\ isAnalyzing' = TRUE
                  /\ timers' = setTimeout(timers, filing)
             ELSE UNCHANGED <<isAnalyzing, timers>>
    /\ UNCHANGED inView

\* a click on the Run button, disabled while isAnalyzing
ClickRun ==
    /\ inView
    /\ ~isAnalyzing
    /\ Len(timers) < MaxTimers
    /\ isAnalyzing' = TRUE
    /\ timers' = setTimeout(timers, selectedFiling)
    /\ UNCHANGED <<inView, selectedFiling, nlpResult>>

\* the oldest pending timer fires: setNlpResult(result); setIsAnalyzing(false)
TimerFires ==
    /\ timers /= << >>
    /\ nlpResult' = AnalysisOf(Head(timers))
    /\ isAnalyzing' = FALSE
    /\ timers' = Tail(timers)
    /\ UNCHANGED <<inView, selectedFiling>>

-----------------------------------------------------------------------------
(* The specifications *)

Init ==
    BacktestInit /\ ClassifyInit /\ EngineInit /\ NlpIdle /\ ThemeIdle /\ PanelIdle

otherVars == <<generated, engineRuns, nlpVars, themeVars, panelVars>>

Next ==
    \/ SkipPastEnd /\ UNCHANGED otherVars
    \/ PriceMissing /\ UNCHANGED otherVars
    \/ Buy /\ UNCHANGED otherVars
    \/ Sell /\ UNCHANGED otherVars
    \/ NoTrade /\ UNCHANGED otherVars
    \/ Finish /\ UNCHANGED otherVars

Spec == Init /\ [][Next]_vars

\* the same run, with a caller that may ask for its cancellation
NextCancel ==
    \/ Next
    \/ RequestCancel /\ UNCHANGED otherVars

SpecCancel == Init /\ [][NextCancel]_vars

InitClassify ==
    BacktestIdle /\ ClassifyInit /\ EngineInit /\ NlpIdle /\ ThemeIdle /\ PanelIdle

NextClassify ==
    \/ GenerateSignal /\ UNCHANGED <<btVars, engineRuns, nlpVars, themeVars, panelVars>>

SpecClassify == InitClassify /\ [][NextClassify]_vars

InitEngine ==
    BacktestIdle /\ ClassifyInit /\ EngineInit /\ NlpIdle /\ ThemeIdle /\ PanelIdle

NextEngine ==
    \/ RunBacktest /\ UNCHANGED <<btVars, generated, nlpVars, themeVars, panelVars>>
    \/ RunBacktestAgain /\ UNCHANGED <<btVars, generated, nlpVars, themeVars, panelVars>>

SpecEngine == InitEngine /\ [][NextEngine]_vars

InitSentiment ==
    BacktestIdle /\ ClassifyInit /\ EngineInit /\ NlpInit /\ ThemeIdle /\ PanelIdle

NextSentiment ==
    \/ ComputeSentiment /\ UNCHANGED <<btVars, generated, engineRuns, themeVars, panelVars>>

SpecSentiment == InitSentiment /\ [][NextSentiment]_vars

InitAnalyze ==
    BacktestIdle /\ ClassifyInit /\ EngineInit /\ NlpInit /\ ThemeIdle /\ PanelIdle

NextAnalyze ==
    \/ Analyze /\ UNCHANGED <<btVars, generated, engineRuns, themeVars, panelVars>>

SpecAnalyze == InitAnalyze /\ [][NextAnalyze]_vars

InitTheme ==
    BacktestIdle /\ ClassifyInit /\ EngineInit /\ NlpIdle /\ ThemeInit /\ PanelIdle

nonThemeVars == <<btVars, generated, engineRuns, nlpVars, panelVars>>

NextTheme ==
    \/ Mount /\ UNCHANGED nonThemeVars
    \/ ClickToggle /\ UNCHANGED nonThemeVars
    \/ KeyDown /\ UNCHANGED nonThemeVars
    \/ MoveFocus /\ UNCHANGED nonThemeVars
    \/ PressCapsLock /\ UNCHANGED nonThemeVars

SpecTheme == InitTheme /\ [][NextTheme]_vars

InitPanel ==
    BacktestIdle /\ ClassifyInit /\ EngineInit /\ NlpIdle /\ ThemeIdle /\ PanelInit

nonPanelVars == <<btVars, generated, engineRuns, nlpVars, themeVars>>

NextPanel ==
    \/ EnterView /\ UNCHANGED nonPanelVars
    \/ SelectFiling /\ UNCHANGED nonPanelVars
    \/ ClickRun /\ UNCHANGED nonPanelVars
    \/ TimerFires /\ UNCHANGED nonPanelVars

SpecPanel == InitPanel /\ [][NextPanel]_vars

\* the event loop runs every timer that is due
SpecPanelLive ==
    InitPanel /\ [][NextPanel]_vars /\ WF_vars(TimerFires /\ UNCHANGED nonPanelVars)


-----------------------------------------------------------------------------
(* Properties of backtest_with_buffer *)

SignalOf(tr) == signals[tr.src]

Chronological(sigs) ==
    \A j, k \in 1 .. Len(sigs) : j < k => sigs[j].timestamp <= sigs[k].timestamp

\* C1 as stated: for every bufferDays >= 0, every recorded trade is executed
\* strictly after the timestamp of the signal that caused it.
C1_StrictlyAfterForAllBuffers ==
    bufferDays >= 0 =>
        \A k \in 1 .. Len(trades) : trades[k].date > SignalOf(trades[k]).timestamp

\* C1 amended: for bufferDays >= 0 no trade is executed before its signal's
\* timestamp, and for bufferDays >= 1 every trade is executed strictly after it.
C1_NoLookAhead ==
    /\ bufferDays >= 0 =>
         \A k \in 1 .. Len(trades) : trades[k].date >= SignalOf(trades[k]).timestamp
    /\ bufferDays >= 1 =>
         \A k \in 1 .. Len(trades) : trades[k].date > SignalOf(trades[k]).timestamp

C1_Witness ==
    /\ bufferDays >= 1
    /\ Len(trades) >= 1
    /\ trades[1].date > SignalOf(trades[1]).timestamp

\* C2: ledger cash is never negative, in any state of a run.
C2_CashNonNegative == cash >= 0

LedgerAppliedWithTrade ==
    (ledgerVars' /= ledgerVars) =>
        /\ Len(trades') = Len(trades) + 1
        /\ SubSeq(trades', 1, Len(trades)) = trades
        /\ LET tr == trades'[Len(trades')]
           IN  IF tr.side = "BUY"
               THEN /\ cash' = cash - tr.shares * tr.price * (100 + slippage)
                    /\ positions'[tr.ticker] = Held(tr.ticker) + tr.shares
               ELSE /\ cash' = cash + tr.shares * tr.price * (100 - slippage)
                    /\ tr.shares = Held(tr.ticker)
                    /\ tr.ticker \notin DOMAIN positions'

C5_MissingPriceSkipped ==
    [][(/\ AtSignal
        /\ AddTradingDays(queue[i].timestamp, bufferDays) <= endDate
        /\ <<queue[i].ticker, AddTradingDays(queue[i].timestamp, bufferDays)>>
               \notin DOMAIN prices
        /\ <<pc, i>>' /= <<pc, i>>)
       => (pc' = "loop" /\ i' = i + 1 /\ UNCHANGED ledgerVars)]_vars

\* C6: a signal whose executionDate is after endDate produces no trade, leaves
\* cash, positions and the trade log unchanged, and the loop goes on.
C6_PastEndSkipped ==
    [][(/\ AtSignal
        /\ AddTradingDays(queue[i].timestamp, bufferDays) > endDate)
       => (/\ UNCHANGED ledgerVars
           /\ pc' = "loop"
           /\ i' \in {i, i + 1})]_vars

C6_Witness ==
    /\ pc = "done"
    /\ Len(trades) = 1
    /\ \E k \in 1 .. Len(queue) :
           AddTradingDays(queue[k].timestamp, bufferDays) > endDate

\* C7: a run with negative bufferDays, or with signals out of timestamp order,
\* is rejected at entry: no trade is executed and the ledger is never mutated.
C7_RejectedAtEntry ==
    (bufferDays < 0 \/ ~Chronological(signals)) =>
        /\ trades = << >>
        /\ cash = InitialCapital
        /\ positions = << >>

\* C8: once a cancellation is asked for at a signal boundary, the result is
\* made of the trades executed before it: the ledger does not change any more.
C8_CancelStopsTheRun ==
    [][cancelRequested => UNCHANGED ledgerVars]_vars

\* the loop stands at a signal whose execution date is within the run and has
\* a price: the signal reaches the BUY / SELL branches
ReachesBranches ==
    /\ AtSignal
    /\ AddTradingDays(queue[i].timestamp, bufferDays) <= endDate
    /\ <<queue[i].ticker, AddTradingDays(queue[i].timestamp, bufferDays)>>
           \in DOMAIN prices

HeldAfter(t) == IF t \in DOMAIN positions' THEN positions'[t] ELSE 0

OthersKept(t) == \A x \in Tickers \ {t} : HeldAfter(x) = Held(x)

TradeOf(side, shares) ==
    LET d == AddTradingDays(queue[i].timestamp, bufferDays)
    IN  [ticker |-> queue[i].ticker, side |-> side, shares |-> shares,
         price |-> prices[<<queue[i].ticker, d>>], date |-> d, src |-> queue[i].src]

\* C11: a SELL signal executed for a ticker with a non-zero position sells the
\* whole position: afterwards the position is zero, cash has grown by exactly
\* shares * price * (1 - slippage), and exactly one SELL trade whose shares are
\* the count held before is appended; no other position changes.
C11_SellLiquidates ==
    [][(/\ ReachesBranches
        /\ queue[i].signal = "SELL"
        /\ Held(queue[i].ticker) > 0)
       => LET t == queue[i].ticker
              held == Held(t)
              price == prices[<<t, AddTradingDays(queue[i].timestamp, bufferDays)>>]
          IN  /\ HeldAfter(t) = 0
              /\ OthersKept(t)
              /\ cash' * 100 = cash * 100 + held * price * 100 * (100 - slippage)
              /\ trades' = Append(trades, TradeOf("SELL", held))
              /\ i' = i + 1]_vars

C11_Witness ==
    /\ slippage > 0
    /\ Len(trades) = 2
    /\ trades[2].side = "SELL"
    /\ trades[2].shares > 0
    /\ Held(trades[2].ticker) = 0
    /\ cash = InitialCapital - trades[1].shares * trades[1].price * (100 + slippage)
                             + trades[2].shares * trades[2].price * (100 - slippage)

\* C12: a BUY signal with cash >= positionSize computes
\* shares = floor(positionSize / price); when shares is 0 nothing is executed
\* and no trade is appended, otherwise cash decreases by
\* shares * price * (1 + slippage), the position grows by shares and one BUY
\* trade is appended; so every trade in the log has a positive share count.
C12_BuySkipsZeroShares ==
    /\ [](\A k \in 1 .. Len(trades) : trades[k].shares >= 1)
    /\ [][(/\ ReachesBranches
            /\ queue[i].signal = "BUY"
            /\ cash * 100 >= Equity(AddTradingDays(queue[i].timestamp, bufferDays))
                                * positionWeight)
           => LET t == queue[i].ticker
                  d == AddTradingDays(queue[i].timestamp, bufferDays)
                  price == prices[<<t, d>>]
                  shares == (Equity(d) * positionWeight) \div (100 * 100 * price)
              IN  IF shares = 0
                  THEN UNCHANGED ledgerVars
                  ELSE /\ cash' = cash - shares * price * (100 + slippage)
                       /\ HeldAfter(t) = Held(t) + shares
                       /\ OthersKept(t)
                       /\ trades' = Append(trades, TradeOf("BUY", shares))]_vars

\* C13: a signal that does not execute leaves the ledger untouched: after a
\* HOLD signal, a SELL signal for a ticker with no position, and a BUY signal
\* when cash < positionSize, the cash, every position and the trade log are
\* what they were before the signal.
C13_NotExecutedLeavesLedger ==
    [][(/\ AtSignal
        /\ \/ queue[i].signal = "HOLD"
           \/ queue[i].signal = "SELL" /\ Held(queue[i].ticker) = 0
           \/ /\ queue[i].signal = "BUY"
              /\ cash * 100 < Equity(AddTradingDays(queue[i].timestamp, bufferDays))
                                  * positionWeight)
       => /\ cash' = cash
          /\ \A x \in Tickers : HeldAfter(x) = Held(x)
          /\ trades' = trades]_vars

\* C20: win rate counts closed round trips only: it is the number of
\* BUY-then-SELL pairs on the same ticker with strictly positive realized P&L
\* divided by the number of closed round trips; a position still open at the
\* end of the run is not in the denominator, and a round trip with zero P&L is
\* not a win.
C20_WinRateOverRoundTrips ==
    (pc = "done" /\ ClosedRoundTrips(trades) /= {})
        => LET closed == Cardinality(ClosedRoundTrips(trades))
               gains == Cardinality({k \in ClosedRoundTrips(trades) :
                            trades[k].shares * trades[k].price * (100 - slippage)
                              > CostOf(trades, OpeningBuys(trades, k))})
           IN  /\ winRate(trades).outOf > 0
               /\ winRate(trades).wins * closed = gains * winRate(trades).outOf

\* a run of two signals, a BUY and a later SELL of the same ticker, both
\* executed within the run at the same price
IsFlatRoundTrip(b, s) ==
    /\ Len(signals) = 2
    /\ b /= s
    /\ signals[b].signal = "BUY"
    /\ signals[s].signal = "SELL"
    /\ signals[b].ticker = signals[s].ticker
    /\ signals[b].timestamp < signals[s].timestamp
    /\ AddTradingDays(signals[b].timestamp, bufferDays) <= endDate
    /\ AddTradingDays(signals[s].timestamp, bufferDays) <= endDate
    /\ <<signals[b].ticker, AddTradingDays(signals[b].timestamp, bufferDays)>>
           \in DOMAIN prices
    /\ <<signals[s].ticker, AddTradingDays(signals[s].timestamp, bufferDays)>>
           \in DOMAIN prices
    /\ prices[<<signals[b].ticker, AddTradingDays(signals[b].timestamp, bufferDays)>>]
         = prices[<<signals[s].ticker, AddTradingDays(signals[s].timestamp, bufferDays)>>]

\* C21: round trip at a flat price: with slippage = 0 and a constant price, a
\* BUY signal followed by a later SELL signal for the same ticker executes
\* exactly two trades, each at its signal time plus bufferDays, the BUY of
\* floor(positionSize / price) shares and the SELL of the same shares, and
\* leaves cash equal to the initial capital with a zero position.
C21_FlatRoundTrip ==
    \A b, s \in 1 .. 2 :
        (pc = "done" /\ slippage = 0 /\ IsFlatRoundTrip(b, s))
            => LET t == signals[b].ticker
                   bought == AddTradingDays(signals[b].timestamp, bufferDays)
                   sold == AddTradingDays(signals[s].timestamp, bufferDays)
                   price == prices[<<t, bought>>]
                   shares == (InitialCapital * positionWeight) \div (100 * 100 * price)
               IN  /\ trades = <<[ticker |-> t, side |-> "BUY", shares |-> shares,
                                  price |-> price, date |-> bought, src |-> b],
                                 [ticker |-> t, side |-> "SELL", shares |-> shares,
                                  price |-> price, date |-> sold, src |-> s]>>
                   /\ cash = InitialCapital
                   /\ Held(t) = 0

C21_Witness ==
    /\ pc = "done"
    /\ slippage = 0
    /\ bufferDays = 1
    /\ \E b, s \in 1 .. 2 : IsFlatRoundTrip(b, s)
    /\ Len(trades) = 2
    /\ trades[1].shares > 0
    /\ trades[2].date > trades[1].date
    /\ cash = InitialCapital

\* C30: no trade creates value: marking the position at the execution price,
\* total equity (cash + shares * price) after an executed BUY or SELL equals
\* the equity before it minus slippage * shares * price, so with slippage = 0
\* equity is unchanged by the trade and with slippage > 0 it never increases.
C30_NoTradeCreatesValue ==
    [][(trades' /= trades)
       => LET tr == trades'[Len(trades')]
              before == cash + Held(tr.ticker) * tr.price * 100
              after == cash' + HeldAfter(tr.ticker) * tr.price * 100
          IN  /\ Len(trades') = Len(trades) + 1
              /\ OthersKept(tr.ticker)
              /\ after = before - slippage * tr.shares * tr.price
              /\ slippage = 0 => after = before
              /\ slippage > 0 => after <= before]_vars

C30_Witness ==
    /\ slippage > 0
    /\ Len(trades) = 2
    /\ trades[1].side = "BUY"
    /\ trades[2].side = "SELL"
    /\ trades[1].shares > 0
    /\ trades[2].shares > 0
    /\ cash < InitialCapital

-----------------------------------------------------------------------------
(* Properties of SignalGenerator.generateSignal *)

C15_ConfidenceClamped ==
    \A k \in 1 .. Len(generated) :
        LET call == generated[k]
            distance == Abs(call.out.composite - 500000) * 200
        IN  (/\ call.positive \in 0 .. 10000
             /\ call.negative \in 0 .. 10000
             /\ call.out.components.fundamental \in 0 .. 100
             /\ call.out.components.technical \in 0 .. 100)
            => /\ call.out.confidence >= 0
               /\ call.out.confidence <= 100
               /\ call.out.confidence
                      = RoundDiv(Min(100 * 1000000, Max(0, distance)), 1000000)

\* C16: the sentiment component used by the classifier is clamped to [0,1]:
\* for positive and negative percentages in [0,100],
\* sentimentScore = clamp01((positive - negative + 50) / 100), so the reported
\* components.sentiment lies in 0..100 and the composite lies in [0,1].
C16_SentimentClamped ==
    \A k \in 1 .. Len(generated) :
        LET call == generated[k]
            clamped == Min(10000, Max(0, call.positive - call.negative + 5000))
        IN  (call.positive \in 0 .. 10000 /\ call.negative \in 0 .. 10000)
            => /\ call.out.components.sentiment = RoundDiv(clamped, 100)
               /\ call.out.components.sentiment \in 0 .. 100
               /\ call.out.composite >= 0
               /\ call.out.composite <= 1000000

\* C26: classification is deterministic: classifying the same ticker with the
\* same feature record twice returns the same decision, confidence and
\* components, also for a ticker with no entry in the score tables.
C26_ClassificationDeterministic ==
    \A j, k \in 1 .. Len(generated) :
        (/\ generated[j].ticker = generated[k].ticker
         /\ generated[j].positive = generated[k].positive
         /\ generated[j].negative = generated[k].negative)
            => /\ generated[j].out.signal = generated[k].out.signal
               /\ generated[j].out.confidence = generated[k].out.confidence
               /\ generated[j].out.components = generated[k].out.components


-----------------------------------------------------------------------------
(* Properties of BacktestEngine.backtest *)

SameInputs(a, b) == a.signals = b.signals /\ a.config = b.config

\* C9: two runs with the same signals and the same configuration return the
\* same BacktestResult in every field.
C9_Reproducible ==
    \A j, k \in 1 .. Len(engineRuns) :
        SameInputs(engineRuns[j], engineRuns[k])
            => engineRuns[j].result = engineRuns[k].result

\* C19: the winRate of every BacktestResult is a fraction between 0 and 1
\* inclusive, for every signal list including the empty one (winRate is kept
\* in tenths here, so 1 is 10).
C19_WinRateIsFraction ==
    \A k \in 1 .. Len(engineRuns) :
        /\ engineRuns[k].result.winRate >= 0
        /\ engineRuns[k].result.winRate <= 10

\* C10: a run made on an engine that has already served another run returns
\* what the same run returns when it is the only one the engine has served.
C10_SameAsAlone ==
    Len(engineRuns) = 2 =>
        \A sigs \in SeqsUpTo(EngineSignalChoices, MaxEngineSignals),
           config \in EngineConfigChoices :
            (/\ engineRuns[2].signals = sigs
             /\ engineRuns[2].config = config)
                => \A draw \in DrawChoices :
                       engineRuns[2].result = backtest(sigs, config, draw)

\* C27: each signal causes at most one trade, so the trade count of a
\* BacktestResult is never greater than the number of signals given to the
\* run, and is 0 for an empty signal list.
C27_TradesAtMostSignals ==
    \A k \in 1 .. Len(engineRuns) :
        /\ engineRuns[k].result.trades <= Len(engineRuns[k].signals)
        /\ engineRuns[k].signals = << >> => engineRuns[k].result.trades = 0


-----------------------------------------------------------------------------
(* Properties of NLPEngine *)

\* C14: for every token sequence, the empty one included, the positive and the
\* negative sentiment score returned by the lexicon scorer are both at least 0
\* and at most 100.
C14_ScoresWithinRange ==
    \A k \in 1 .. Len(scored) :
        /\ scored[k].sentiment.positive >= 0
        /\ scored[k].sentiment.positive <= 100 * 100
        /\ scored[k].sentiment.negative >= 0
        /\ scored[k].sentiment.negative <= 100 * 100

C14_Witness ==
    /\ Len(scored) = 1
    /\ Len(scored[1].tokens) = MaxTokens
    /\ scored[1].sentiment.positive = 100 * 100
    /\ scored[1].sentiment.negative = 0

\* the tokens of a scored call that are in the word set, themselves or stemmed
CountIn(words, tokens) ==
    Cardinality({k \in 1 .. Len(tokens) :
                    \/ Join(tokens[k]) \in words
                    \/ Join(stemWord(tokens[k])) \in words})

\* v is count / total as a percentage rounded to two decimals (in hundredths)
IsRoundedShare(v, count, total) ==
    /\ 2 * v * total <= 2 * count * 10000 + total
    /\ 2 * count * 10000 + total < 2 * v * total + 2 * total

Growth == <<"g", "r", "o", "w", "t", "h">>
Risk == <<"r", "i", "s", "k">>

\* C23: the positive score of a token sequence is
\* 100 * positiveCount / max(1, totalTokens) rounded to two decimals, and the
\* negative score likewise, where a token counts for a category when itself or
\* its stemmed form is in the category's word set; the tokens growth, growth,
\* risk score 66.67 positive and 33.33 negative.
C23_ScoresAreRoundedShares ==
    \A k \in 1 .. Len(scored) :
        LET call == scored[k]
            engine == nlpEngines[call.engine]
            total == IF Len(call.tokens) < 1 THEN 1 ELSE Len(call.tokens)
        IN  /\ IsRoundedShare(call.sentiment.positive,
                              CountIn(engine.positiveWords, call.tokens), total)
            /\ IsRoundedShare(call.sentiment.negative,
                              CountIn(engine.negativeWords, call.tokens), total)
            /\ call.tokens = <<Growth, Growth, Risk>>
                   => /\ call.sentiment.positive = 6667
                      /\ call.sentiment.negative = 3333

C23_Witness ==
    \E k \in 1 .. Len(scored) :
        /\ scored[k].tokens = <<Growth, Growth, Risk>>
        /\ scored[k].sentiment.positive = 6667
        /\ scored[k].sentiment.negative = 3333

\* |positive - negative| + (100 - 10 * uncertainty), times the token total:
\* the confidence before any rounding or clamping, as a numerator over total
RawConfidence(call) ==
    LET engine == nlpEngines[call.engine]
        total == IF Len(call.tokens) < 1 THEN 1 ELSE Len(call.tokens)
        positive == CountIn(engine.positiveWords, call.tokens)
        negative == CountIn(engine.negativeWords, call.tokens)
        uncertainty == CountIn(engine.uncertaintyWords, call.tokens)
    IN  [numerator |-> Abs(positive - negative) * 100
                         + (100 - 10 * uncertainty) * total,
         total |-> total,
         uncertainty |-> uncertainty]

C17_EmptyTextAllZero ==
    \A k \in 1 .. Len(analyses) :
        analyses[k].text = << >>
            => /\ analyses[k].out.tokens = << >>
               /\ analyses[k].out.entities = << >>
               /\ analyses[k].out.keyPhrases = << >>
               /\ analyses[k].out.sentiment
                      = [positive |-> 0, negative |-> 0, neutral |-> 0, confidence |-> 0]

\* C17 amended: feature extraction on an empty rawText returns an empty token
\* sequence, no entities, no key phrases and a sentiment record whose positive
\* and negative scores are zero, whose neutral score is 100 and whose
\* confidence is 100.
C17_EmptyTextYieldsEmptyRecord ==
    \A k \in 1 .. Len(analyses) :
        analyses[k].text = << >>
            => /\ analyses[k].out.tokens = << >>
               /\ analyses[k].out.entities = << >>
               /\ analyses[k].out.keyPhrases = << >>
               /\ analyses[k].out.sentiment
                      = [positive |-> 0, negative |-> 0,
                         neutral |-> 100 * 100, confidence |-> 100]

C17_Witness ==
    \E k \in 1 .. Len(analyses) :
        /\ analyses[k].text = << >>
        /\ analyses[k].out.tokens = << >>
        /\ analyses[k].out.sentiment.neutral = 100 * 100

\* every match of every pattern in the text, trimmed, in the order the code
\* meets them: pattern by pattern, and in text order within a pattern
RECURSIVE MatchList(_, _)
MatchList(text, k) ==
    IF k > Len(Patterns) THEN << >>
    ELSE LET matches == MatchesFrom(Patterns[k], text, 1)
         IN  [j \in 1 .. Len(matches) |->
                 [name |-> Join(Trim(matches[j])), type |-> Patterns[k]]]
               \o MatchList(text, k + 1)

TimesMatched(list, name) ==
    Cardinality({j \in 1 .. Len(list) : list[j].name = name})

FirstMatched(list, name) ==
    CHOOSE j \in 1 .. Len(list) :
        list[j].name = name /\ \A h \in 1 .. j - 1 : list[h].name /= name

\* the first position of the text at which the string name stands
FirstOccurrence(text, name) ==
    CHOOSE p \in 1 .. Len(text) :
        /\ p + Len(name) - 1 <= Len(text)
        /\ Join(SubSeq(text, p, p + Len(name) - 1)) = name
        /\ \A q \in 1 .. p - 1 :
               Join(SubSeq(text, q, q + Len(name) - 1)) /= name

\* entities is the list of the distinct names of list with their counts, by
\* descending count, equal counts ordered by Earlier, cut to the first ten
IsEntityList(entities, list, Earlier(_, _)) ==
    LET names == {list[j].name : j \in 1 .. Len(list)}
        kept == {entities[k].name : k \in 1 .. Len(entities)}
    IN  /\ Len(entities) <= 10
        /\ Len(entities) = IF Cardinality(names) > 10 THEN 10 ELSE Cardinality(names)
        /\ \A k \in 1 .. Len(entities) :
               /\ entities[k].name \in names
               /\ entities[k].count = TimesMatched(list, entities[k].name)
               /\ entities[k].type = list[FirstMatched(list, entities[k].name)].type
        /\ \A j, k \in 1 .. Len(entities) :
               j < k => /\ entities[j].name /= entities[k].name
                        /\ entities[j].count >= entities[k].count
                        /\ entities[j].count = entities[k].count
                               => Earlier(entities[j].name, entities[k].name)
        /\ \A name \in names \ kept : \A k \in 1 .. Len(entities) :
               \/ entities[k].count > TimesMatched(list, name)
               \/ /\ entities[k].count = TimesMatched(list, name)
                  /\ Earlier(entities[k].name, name)

\* the call to analyze made last: every call is the last one when it returns
LastCall == analyses[Len(analyses)]

\* C25 as the specification states it: entity extraction returns at most 10
\* entities, one per distinct trimmed matched substring with its occurrence
\* count, sorted by descending count, and entities with equal counts appear
\* in the order of their first occurrence in the text.
C25_TiesByFirstOccurrence ==
    analyses /= << >> =>
        LET text == LastCall.text
        IN  IsEntityList(LastCall.out.entities, MatchList(text, 1),
                LAMBDA a, b : FirstOccurrence(text, a) < FirstOccurrence(text, b))

\* C25: entity extraction returns at most 10 entities, one per distinct
\* trimmed matched substring with its occurrence count, sorted by descending
\* count; entities with equal counts appear in the order in which they were
\* first matched, the patterns taken one after the other (MONEY,
\* FISCAL_PERIOD, DATE, PERCENTAGE, ROLE) and each pattern's matches in text
\* order.
C25_TiesByFirstMatch ==
    analyses /= << >> =>
        LET list == MatchList(LastCall.text, 1)
        IN  IsEntityList(LastCall.out.entities, list,
                LAMBDA a, b : FirstMatched(list, a) < FirstMatched(list, b))

\* more than ten distinct names matched, ten kept, the most frequent first,
\* and two with equal counts behind it
C25_Witness ==
    analyses /= << >> /\
        LET list == MatchList(LastCall.text, 1)
            entities == LastCall.out.entities
        IN  /\ Cardinality({list[j].name : j \in 1 .. Len(list)}) > 10
            /\ Len(entities) = 10
            /\ entities[1].count > entities[2].count
            /\ entities[2].count = entities[3].count

-----------------------------------------------------------------------------
(* Properties of the theme toggle *)

\* the T key goes down with neither Ctrl nor Meta held and the focus outside
\* INPUT and TEXTAREA
IsTPress(e) ==
    /\ e.kind = "keydown"
    /\ e.code = "KeyT"
    /\ ~e.ctrlKey
    /\ ~e.metaKey
    /\ e.target \notin {"INPUT", "TEXTAREA"}

IsToggle(e) == e.kind = "click" \/ IsTPress(e)

\* C22: pressing the T key while the focus is not in an INPUT or TEXTAREA and
\* without Ctrl or Meta flips the theme between dark and light, and so does a
\* click on the toggle button: after such key presses and clicks data-theme
\* is dark or light, it alternates on each of them, and the value stored
\* under stryker-theme equals the applied attribute.
C22_TogglesFlipTheme ==
    /\ [](IsToggle(lastEvent)
            => dataTheme \in {"dark", "light"} /\ storedTheme = dataTheme)
    /\ [][(events' = events + 1 /\ IsToggle(lastEvent'))
            => /\ dataTheme \in {"dark", "light"}
               /\ dataTheme' \in {"dark", "light"}
               /\ dataTheme' /= dataTheme]_vars

-----------------------------------------------------------------------------
(* Properties of NLPAnalyzerSection *)

\* C28: whenever a non-null analysis result is displayed it is the analysis
\* of the text of the currently selected filing, under every interleaving of
\* filing selections, Run clicks, the run-on-view effect and timer firings.
C28_ResultIsOfSelectedFiling ==
    nlpResult /= NoResult => nlpResult = AnalysisOf(selectedFiling)

Settled == ~isAnalyzing /\ nlpResult = AnalysisOf(selectedFiling)

UserClicks ==
    \/ SelectFiling /\ UNCHANGED nonPanelVars
    \/ ClickRun /\ UNCHANGED nonPanelVars

\* C29: once the panel is in view every started analysis completes: if the
\* pending timers eventually fire, the panel never stays in the analyzing
\* state forever, and after a finite sequence of filing selections and Run
\* clicks it reaches, and keeps, isAnalyzing = false with the result of the
\* selected filing.
C29_AnalysesComplete ==
    /\ isAnalyzing ~> ~isAnalyzing
    /\ <>[][~UserClicks]_vars => <>[](inView => Settled)

\* a filing was selected and its analysis is displayed, no timer pending
C29_Witness ==
    /\ inView
    /\ selectedFiling /= sampleFilings[1]
    /\ timers = << >>
    /\ Settled

====
